---------------------------- MODULE Spec2Model ----------------------------
(***************************************************************************)
(* A model of the GoCampus transport-fee application (src/app.py): the     *)
(* student table, the scan log, the wall clock, the admin session and the  *)
(* /verify_qr handler (scan resolver, same-day duplicate guard and access  *)
(* decision), with the handlers that change the student table.            *)
(*                                                                         *)
(* Text is modelled as a sequence of one-character strings, so that        *)
(* LOWER(), LIKE, str.strip(), str.isdigit() and the identifier format are *)
(* computed character by character, as SQLite and Python compute them.     *)
(* A NULL column is the empty sequence << >>, a present number v is <<v>>  *)
(* and a present date is its year, month and day; JSON null is the record  *)
(* Null.                                                                   *)
(***************************************************************************)
EXTENDS Integers, Sequences, FiniteSets, TLC

VARIABLES
    students,   \* table students, in rowid order
    scan_log,   \* table scan_log, in rowid order
    today,      \* the wall clock's calendar day
    session,    \* the set of keys of the Flask session
    pc,         \* per worker thread: where its /verify_qr request stands
    loc,        \* per worker thread: the locals of its /verify_qr request
    req,        \* per worker thread: the body of the /verify_qr request it
                \* received last (NoReq after a request to another route)
    resp,       \* per worker thread: the last response it returned
    seen,       \* history: the (student_id, scan_date) pairs given a verdict
    files,      \* the files under static/qrcodes and static/student_photos
    help_tickets,     \* table help_tickets, in rowid order
    sqlite_sequence,  \* the last rowid issued for help_tickets
    renewal_history   \* table renewal_history, in rowid order

vars == <<students, scan_log, today, session, pc, loc, req, resp, seen,
          files, help_tickets, sqlite_sequence, renewal_history>>

\* The tables and files no scan touches.
tickets_and_renewals == <<help_tickets, sqlite_sequence, renewal_history>>

----------------------------------------------------------------------------
(* Bounds of the model *)

MaxDay == 2
MaxLog == 2
MaxStore == 7

MaxRenewals == 1
MaxTickets == 2
MaxTicketDay == 7

(* Program constants *)

CandidateCap == 5
FeeAmount == 15000
PruneAge == 5

----------------------------------------------------------------------------
(* Characters and text *)

UpperCase == <<"A","B","C","D","E","F","G","H","I","J","K","L","M",
               "N","O","P","Q","R","S","T","U","V","W","X","Y","Z">>
LowerCase == <<"a","b","c","d","e","f","g","h","i","j","k","l","m",
               "n","o","p","q","r","s","t","u","v","w","x","y","z">>
DigitChars == <<"0","1","2","3","4","5","6","7","8","9">>

DigitSet == { DigitChars[i] : i \in 1..Len(DigitChars) }

IsDigitChar(c) == c \in DigitSet

DigitValOf == [c \in DigitSet |->
                 (CHOOSE i \in 1..Len(DigitChars) : DigitChars[i] = c) - 1]

DigitVal(c) == DigitValOf[c]

UpperSet == { UpperCase[i] : i \in 1..Len(UpperCase) }

LowerOf == [c \in UpperSet |->
              LowerCase[CHOOSE i \in 1..Len(UpperCase) : UpperCase[i] = c]]

\* ASCII lower-casing of one character: SQLite's LOWER() and, on ASCII
\* text, Python's str.lower().
LowerChar(c) == IF c \in UpperSet THEN LowerOf[c] ELSE c

Lower(s) == [i \in 1..Len(s) |-> LowerChar(s[i])]

\* str.isdigit(): non-empty and every character a digit.
IsDigit(s) == Len(s) > 0 /\ \A i \in 1..Len(s) : IsDigitChar(s[i])

RECURSIVE LStrip(_)
LStrip(s) == IF s # << >> /\ Head(s) = " " THEN LStrip(Tail(s)) ELSE s

RECURSIVE RStrip(_)
RStrip(s) ==
    IF s # << >> /\ s[Len(s)] = " " THEN RStrip(SubSeq(s, 1, Len(s) - 1)) ELSE s

\* str.strip()
Strip(s) == RStrip(LStrip(s))

\* SQLite's LIKE: % matches any run of characters, _ any one character,
\* everything else matches itself without regard to ASCII letter case.
RECURSIVE Like(_, _)
Like(pat, txt) ==
    IF pat = << >> THEN txt = << >>
    ELSE IF Head(pat) = "%"
         THEN Like(Tail(pat), txt) \/ (txt # << >> /\ Like(pat, Tail(txt)))
    ELSE IF txt = << >> THEN FALSE
    ELSE /\ (Head(pat) = "_" \/ LowerChar(Head(pat)) = LowerChar(Head(txt)))
         /\ Like(Tail(pat), Tail(txt))

\* datetime.strftime("%Y-%m-%d") of the clock's day: year, month, day.
DateStr(day) == <<2024, 1, day>>

\* format_date: "%Y-%m-%d" re-written as "%d-%m-%Y"; "" for an empty value.
format_date(date_str) ==
    IF date_str = << >> THEN << >>
    ELSE <<date_str[3], date_str[2], date_str[1]>>

Null == [null |-> TRUE]

RemoveChar(s, c) == SelectSeq(s, LAMBDA x : x # c)

RECURSIVE DigitsValue(_)
DigitsValue(s) ==
    IF s = << >> THEN 0
    ELSE 10 * DigitsValue(SubSeq(s, 1, Len(s) - 1)) + DigitVal(s[Len(s)])

\* int(text) on text made of digits; << >> stands for the ValueError.
PyInt(s) == IF IsDigit(s) THEN <<DigitsValue(s)>> ELSE << >>

RECURSIVE Decimal(_)
Decimal(n) ==
    IF n < 10 THEN <<DigitChars[n + 1]>>
    ELSE Decimal(n \div 10) \o <<DigitChars[(n % 10) + 1]>>

\* f"S{next_num:02d}"
FormatId(n) == <<"S">> \o (IF n < 10 THEN <<"0">> ELSE << >>) \o Decimal(n)

----------------------------------------------------------------------------
(* Helpers of src/app.py *)

\* The numbers of the identifiers that start with S and parse as integers.
UsedNumbers(store) ==
    { PyInt(Tail(store[i].student_id))[1] :
        i \in { j \in 1..Len(store) :
                  /\ store[j].student_id # << >>
                  /\ Head(store[j].student_id) = "S"
                  /\ PyInt(Tail(store[j].student_id)) # << >> } }

\* while next_num in used_numbers: next_num += 1
RECURSIVE NextNum(_, _)
NextNum(used, next_num) ==
    IF next_num \in used THEN NextNum(used, next_num + 1) ELSE next_num

\* An identifier numbered by the count of the students.
generate_student_id_ByCount(store) == FormatId(Len(store) + 1)

generate_student_id(store) == FormatId(NextNum(UsedNumbers(store), 1))

validate_bus_id(bus_id) == bus_id # << >> /\ IsDigit(bus_id)

----------------------------------------------------------------------------
(* The files under static/ and generate_secure_qr (src/app.py 32-185) *)

\* A file system is the set of its files, one per path.
NoFiles == {}

FileAt(path, content) == [path |-> path, content |-> content]

\* os.path.exists
Exists(fs, path) == \E f \in fs : f.path = path

\* open(path, "wb") and write: creates the file or replaces its content.
WriteFile(fs, path, content) ==
    { f \in fs : f.path # path } \cup { FileAt(path, content) }

\* os.remove
RemoveFile(fs, path) == { f \in fs : f.path # path }

PngExt == <<".","p","n","g">>
JpgExt == <<".","j","p","g">>

\* os.path.join(QR_PATH, f"{student_id}_temp.png")
QrTempPath(student_id) ==
    [dir |-> "qrcodes",
     name |-> student_id \o <<"_","t","e","m","p">> \o PngExt]

\* os.path.join(QR_PATH, f"{student_id}.png")
QrFinalPath(student_id) == [dir |-> "qrcodes", name |-> student_id \o PngExt]

\* os.path.join(PHOTO_PATH, photo_filename)
PhotoPath(photo_filename) == [dir |-> "student_photos", name |-> photo_filename]

\* The base matrix saved by segno: the payload and nothing else.
BaseImage(student_id) ==
    [kind |-> "qr", payload |-> student_id, watermark |-> FALSE,
     logo |-> FALSE, border |-> FALSE]

\* The composed image: payload, watermark, logo when one could be pasted,
\* micro-text border.
FinalImage(student_id, with_logo) ==
    [kind |-> "qr", payload |-> student_id, watermark |-> TRUE,
     logo |-> with_logo, border |-> TRUE]

\* What a save that failed while writing leaves of a file that existed.
Truncated == [kind |-> "truncated"]

\* The step of generate_secure_qr that raises in a call: none of them, the
\* encoder (segno.make), the save of the temporary PNG, the watermark, the
\* logo (missing or unreadable), the border text, the save of the final
\* PNG, or the removal of the temporary PNG.
QrOutcomes ==
    { "none", "encoder", "temp_save", "watermark", "logo", "border",
      "final_save", "cleanup" }

\* The steps whose exception the function re-raises (183-185); the logo
\* and the cleanup have a try/except of their own (141-142, 176-180).
QrFatal == { "encoder", "temp_save", "watermark", "border", "final_save" }

\* A generation that stores the bare code at the final path before the
\* cosmetic layer is drawn.
generate_secure_qr_SaveFirst(fs, student_id, outcome) ==
    LET temp == QrTempPath(student_id)
        final == QrFinalPath(student_id)
        saved_temp == WriteFile(fs, temp, BaseImage(student_id))
        saved_base == WriteFile(saved_temp, final, BaseImage(student_id))
        saved_final ==
            WriteFile(saved_temp, final,
                      FinalImage(student_id, outcome # "logo"))
    IN  IF outcome \in {"encoder", "temp_save"}
        THEN [files |-> fs, ok |-> FALSE]
        ELSE IF outcome \in {"watermark", "border", "final_save"}
        THEN [files |-> saved_base, ok |-> FALSE]
        ELSE IF outcome = "cleanup"
        THEN [files |-> saved_final, ok |-> TRUE, path |-> final]
        ELSE [files |-> RemoveFile(saved_final, temp), ok |-> TRUE,
              path |-> final]

\* A generation that names the stored file after the step that was skipped.
generate_secure_qr_KeyByLogo(fs, student_id, outcome) ==
    LET temp == QrTempPath(student_id)
        final == IF outcome = "logo"
                 THEN QrFinalPath(student_id \o <<"_","p","l","a","i","n">>)
                 ELSE QrFinalPath(student_id)
        saved_temp == WriteFile(fs, temp, BaseImage(student_id))
        saved_final ==
            WriteFile(saved_temp, final,
                      FinalImage(student_id, outcome # "logo"))
    IN  IF outcome \in {"encoder", "temp_save"}
        THEN [files |-> fs, ok |-> FALSE]
        ELSE IF outcome \in {"watermark", "border", "final_save"}
        THEN [files |-> saved_temp, ok |-> FALSE]
        ELSE IF outcome = "cleanup"
        THEN [files |-> saved_final, ok |-> TRUE, path |-> final]
        ELSE [files |-> RemoveFile(saved_final, temp), ok |-> TRUE,
              path |-> final]

\* generate_secure_qr(student_id) on the file system fs, with the step
\* that raises: the file system it leaves, whether it returned, and the
\* path it returned.
generate_secure_qr(fs, student_id, outcome) ==
    LET temp == QrTempPath(student_id)
        final == QrFinalPath(student_id)
        saved_temp == WriteFile(fs, temp, BaseImage(student_id))
        saved_final ==
            WriteFile(saved_temp, final,
                      FinalImage(student_id, outcome # "logo"))
    IN  IF outcome \in {"encoder", "temp_save"}
        THEN [files |-> fs, ok |-> FALSE]
        ELSE IF outcome \in {"watermark", "border"}
        THEN [files |-> saved_temp, ok |-> FALSE]
        ELSE IF outcome = "final_save"
        THEN [files |-> IF Exists(saved_temp, final)
                        THEN WriteFile(saved_temp, final, Truncated)
                        ELSE saved_temp,
              ok |-> FALSE]
        ELSE IF outcome = "cleanup"
        THEN [files |-> saved_final, ok |-> TRUE, path |-> final]
        ELSE [files |-> RemoveFile(saved_final, temp), ok |-> TRUE,
              path |-> final]

\* delete_qr_file
delete_qr_file(fs, student_id) ==
    IF Exists(fs, QrFinalPath(student_id))
    THEN RemoveFile(fs, QrFinalPath(student_id))
    ELSE fs

\* os.path.splitext(filename)[1]: from the last dot, unless the name has
\* no dot after its first character that is not a dot.
SplitExt(filename) ==
    LET dots == { i \in 1..Len(filename) :
                    /\ filename[i] = "."
                    /\ \E j \in 1..(i - 1) : filename[j] # "." }
    IN  IF dots = {} THEN << >>
        ELSE LET last == CHOOSE i \in dots : \A j \in dots : j <= i
             IN  SubSeq(filename, last, Len(filename))

\* validate_photo: the uploads that are a JPEG or PNG portrait photo.
ValidImages == { "portrait-1", "portrait-2" }

validate_photo(bytes) == bytes \in ValidImages

\* A year of 365 days added to a date: the same day of the next year, or
\* the day before it when a 29th of February lies in between.
IsLeap(y) == (y % 4 = 0 /\ y % 100 # 0) \/ y % 400 = 0

DaysInMonth(y, m) ==
    IF m = 2 THEN (IF IsLeap(y) THEN 29 ELSE 28)
    ELSE IF m \in {4, 6, 9, 11} THEN 30 ELSE 31

PrevDay(date) ==
    IF date[3] > 1 THEN <<date[1], date[2], date[3] - 1>>
    ELSE IF date[2] > 1
    THEN <<date[1], date[2] - 1, DaysInMonth(date[1], date[2] - 1)>>
    ELSE <<date[1] - 1, 12, 31>>

\* date + timedelta(days=365)
Plus365(date) ==
    LET y == date[1]
        m == date[2]
        d == date[3]
    IN  IF (IsLeap(y) /\ (m < 2 \/ (m = 2 /\ d < 29)))
           \/ (IsLeap(y + 1) /\ m > 2)
        THEN PrevDay(<<y + 1, m, d>>)
        ELSE IF m = 2 /\ d = 29 THEN <<y + 1, 2, 28>>
        ELSE <<y + 1, m, d>>

----------------------------------------------------------------------------
(* /verify_qr: the scan resolver (src/app.py 667-721) *)

\* Mutant: the query taken without strip().
ParseQuery_NoStrip(data) ==
    IF data.student_id # << >> THEN data.student_id ELSE data.query

\* (data.get("student_id") or data.get("query") or "").strip()
ParseQuery(data) ==
    Strip(IF data.student_id # << >> THEN data.student_id ELSE data.query)

SearchTerm(query) == <<"%">> \o Lower(query) \o <<"%">>

\* Mutant: the identifier compared without LOWER().
IdRows_CaseSensitive(store, query) ==
    SelectSeq(store, LAMBDA r : r.student_id = query)

\* WHERE LOWER(student_id)=LOWER(?)
IdRows(store, query) ==
    SelectSeq(store, LAMBDA r : Lower(r.student_id) = Lower(query))

\* WHERE bus_id=?
RouteExactRows(store, query) == SelectSeq(store, LAMBDA r : r.bus_id = query)

\* WHERE bus_id LIKE ?
RouteLikeRows(store, query) ==
    SelectSeq(store, LAMBDA r : Like(SearchTerm(query), r.bus_id))

\* WHERE LOWER(name)=?
NameExactRows(store, query) ==
    SelectSeq(store, LAMBDA r : Lower(r.name) = Lower(query))

\* WHERE LOWER(name) LIKE ?
NameLikeRows(store, query) ==
    SelectSeq(store, LAMBDA r : Like(SearchTerm(query), Lower(r.name)))

\* Mutant: the substring tier consulted without trying the exact tier.
PotentialRows_SubstringOnly(store, query) ==
    IF IsDigit(query)
    THEN RouteLikeRows(store, query)
    ELSE NameLikeRows(store, query)

\* Mutant: an exact tier that selects no row does not hand over.
PotentialRows_ExactOnly(store, query) ==
    IF IsDigit(query)
    THEN RouteExactRows(store, query)
    ELSE NameExactRows(store, query)

\* potential_rows: the rows of the first tier of the query's branch that
\* yields any.
PotentialRows(store, query) ==
    IF IsDigit(query)
    THEN LET exact == RouteExactRows(store, query)
         IN  IF exact # << >> THEN exact ELSE RouteLikeRows(store, query)
    ELSE LET exact == NameExactRows(store, query)
         IN  IF Len(exact) # 0 THEN exact ELSE NameLikeRows(store, query)

Candidate(r) == [student_id |-> r.student_id, name |-> r.name, bus_id |-> r.bus_id]

\* Mutant: the candidate list without the [:5] slice.
Matches_Uncapped(rows) == [i \in 1..Len(rows) |-> Candidate(rows[i])]

\* potential_rows[:5], each as identifier, name and route
Matches(rows) ==
    [i \in 1..(IF Len(rows) < CandidateCap THEN Len(rows) ELSE CandidateCap)
        |-> Candidate(rows[i])]

\* The outcome of the resolver for a non-empty query.
Resolve(store, query) ==
    LET id_rows == IdRows(store, query)
        potential_rows == PotentialRows(store, query)
    IN  IF id_rows # << >>
        THEN [kind |-> "Single", row |-> Head(id_rows)]
        ELSE IF Len(potential_rows) = 1
        THEN [kind |-> "Single", row |-> potential_rows[1]]
        ELSE IF Len(potential_rows) > 1
        THEN [kind |-> "Multiple", matches |-> Matches(potential_rows)]
        ELSE [kind |-> "NotFound"]

----------------------------------------------------------------------------
(* /verify_qr: duplicate guard, access decision and responses
   (src/app.py 722-782) *)

\* Mutant: the lookup made with the date in display order, which no stored
\* scan_date equals.
AlreadyScanned_DisplayDate(log, student_id, date) ==
    \E i \in 1..Len(log) :
        log[i].student_id = student_id /\ log[i].scan_date = format_date(date)

\* Mutant: the lookup made by student alone.
AlreadyScanned_IgnoresDate(log, student_id, date) ==
    \E i \in 1..Len(log) : log[i].student_id = student_id

\* SELECT 1 FROM scan_log WHERE student_id=? AND scan_date=?
AlreadyScanned(log, student_id, date) ==
    \E i \in 1..Len(log) :
        log[i].student_id = student_id /\ log[i].scan_date = date

ScanEvent(student_id, date, time) ==
    [student_id |-> student_id, scan_date |-> date, scan_time |-> time]

\* The student_data object of the response, built from the resolved row.
StudentData(row) ==
    [student_id |-> row.student_id,
     name |-> row.name,
     bus_id |-> row.bus_id,
     fee_paid |-> row.fee_paid,
     amount_paid |-> row.amount_paid,
     transaction_date |-> format_date(row.transaction_date)]

\* Mutant: access granted only to a row that also records an amount.
DecisionMessage_NeedsAmount(row) ==
    IF row.fee_paid = 1 /\ row.amount_paid # << >>
    THEN [text |-> "Access Granted", name |-> row.name]
    ELSE [text |-> "Access Denied", name |-> row.name]

\* The message of a first scan of the day, from the row's fee_paid flag.
DecisionMessage(row) ==
    IF row.fee_paid = 1
    THEN IF row.amount_paid # << >> /\ row.amount_paid # <<0>>
            /\ row.transaction_date # << >>
         THEN [text |-> "Access Granted", name |-> row.name,
               amount |-> row.amount_paid[1],
               date |-> format_date(row.transaction_date)]
         ELSE IF row.transaction_date # << >>
         THEN [text |-> "Access Granted", name |-> row.name,
               date |-> format_date(row.transaction_date)]
         ELSE [text |-> "Access Granted", name |-> row.name]
    ELSE [text |-> "Access Denied", name |-> row.name]

RespNoIdentifier ==
    [status |-> "Error",
     message |-> [text |-> "No student identifier provided."],
     student_data |-> Null]

RespMultiple(matches) ==
    [status |-> "Multiple",
     message |-> [text |-> "Multiple students matched this search."],
     matches |-> matches,
     student_data |-> Null]

RespNotFound ==
    [status |-> "Error",
     message |-> [text |-> "Student not found!"],
     student_data |-> Null]

\* Mutant: the duplicate response without the student's data.
RespDuplicate_NoData(row) ==
    [status |-> "duplicate",
     message |-> [text |-> "Duplicate Scan Detected"],
     student_data |-> Null,
     duplicate |-> TRUE]

RespDuplicate(row) ==
    [status |-> "duplicate",
     message |-> [text |-> "Duplicate Scan Detected"],
     student_data |-> StudentData(row),
     duplicate |-> TRUE]

RespDecision(row) ==
    [status |-> "success",
     message |-> DecisionMessage(row),
     student_data |-> StudentData(row),
     duplicate |-> FALSE]

\* The response of a handler that flashes a message and redirects.
Redirect(flash) == [status |-> "redirect", flash |-> flash]

NoResp == [status |-> "none"]

NoReq == [none |-> TRUE]

NoLoc == [row |-> Null, today |-> << >>, current_time |-> << >>]

----------------------------------------------------------------------------
(* Inputs of the requests *)

Workers == {"w1", "w2"}

\* A server that handles one request at a time has a single worker.
SeqWorkers == {"w1"}

Days == 1..MaxDay

Times == {"08:15:00"}

Adi == <<"A","d","i">>
Aditi == <<"A","d","i","t","i">>
Diya == <<"D","i","y","a">>
NameS01 == <<"S","0","1">>

Bus12 == <<"1","2">>
Bus123 == <<"1","2","3">>
Bus21 == <<"2","1">>

S01 == <<"S","0","1">>

Body(student_id, query) == [student_id |-> student_id, query |-> query]

\* The JSON bodies a scanner client sends to /verify_qr.
ScanBodies ==
    { Body(S01, << >>), Body(<<"s","0","2"," ">>, << >>),
      Body(<< >>, <<"a","d","i">>),
      Body(<<" ">>, << >>), Body(<< >>, << >>) }

\* The JSON bodies of the concurrent scanner clients.
ConcBodies ==
    { Body(S01, << >>), Body(<< >>, <<"s","0","2"," ">>),
      Body(<<"z","z">>, << >>) }

\* The texts the resolver is applied to.
Queries ==
    { S01, <<"s","0","1">>, <<" ","S","0","2">>, <<"s","0","9">>,
      Bus12, Bus123, <<"1">>, <<"3">>, <<"7">>,
      Adi, <<"a","d","i","t","i">>, <<"d","I","y">>, <<"z","z">>, <<"_">> }

ResolveBodies ==
    { Body(q, << >>) : q \in Queries } \cup
    { Body(<< >>, <<"s","0","3">>), Body(<<" ">>, S01), Body(<< >>, <<" ">>) }

FormIds == {S01}

Amount15000 == <<"1","5",",","0","0","0">>

AmountTexts == { Amount15000, <<"1","0","0">> }

\* An uploaded photo: the name of the file on the client and its bytes.
Photo(filename, bytes) == [filename |-> filename, bytes |-> bytes]

\* The photo field left empty.
NoPhoto == Photo(<< >>, "empty")

PhotoJpg == Photo(<<"m","e",".","J","P","G">>, "portrait-1")
PhotoJpeg == Photo(<<"m","e",".","j","p","e","g">>, "portrait-1")

AddForm(name, bus_id, fee_paid, amount_paid, photo) ==
    [name |-> name, bus_id |-> bus_id, fee_paid |-> fee_paid,
     amount_paid |-> amount_paid, photo |-> photo]

\* The forms posted while the scans are studied: two students and a form
\* that is turned down.
SeqForms ==
    { AddForm(Adi, Bus12, <<"0">>, << >>, PhotoJpg),
      AddForm(<<" ","D","i","y","a">>, Bus12, <<"1">>, Amount15000, PhotoJpg),
      AddForm(<<" ">>, <<"B","U","S">>, <<"0">>, << >>, NoPhoto) }

\* While the scans are studied, no step of generate_secure_qr raises.
SeqOutcomes == { "none" }

Logins ==
    { [username |-> "admin", password |-> "12345"],
      [username |-> "admin", password |-> "admin"] }

\* The forms posted to /student_issue.
TicketForms ==
    { [name |-> Adi, usn |-> <<"1","B","I","2","1">>, issue |-> <<"l","a","t","e">>],
      [name |-> Adi, usn |-> <<"1","B","I","2","1">>, issue |-> << >>] }

\* The first sample student of database_setup.py.
S101 == <<"S","1","0","1">>

\* The students the requests of the whole application name.
AppIds == {S101}

\* The scans of the whole application: each sample student, a digit of the
\* route both of them ride, and a text that matches nothing.
AppBodies ==
    { Body(S101, << >>), Body(<< >>, <<"1">>),
      Body(<<"S","1","0","2">>, << >>), Body(<<"z","z">>, << >>) }

\* The registration form and the payment of the whole application.
AppForms ==
    { AddForm(Adi, Bus12, <<"0">>, << >>, PhotoJpg) }

AppAmounts == { Amount15000 }

\* In the whole application no step of generate_secure_qr raises.
AppOutcomes == { "none" }

TicketIds == 1..MaxTickets

\* The offset of the server's time zone from UTC, in minutes: UTC, India
\* (+05:30), New York in winter (-05:00).
UtcOffsets == { 0, 330, -300 }

\* The whole application runs on a server set to UTC.
AppOffsets == { 0 }

\* The students named in the requests for a QR code: the two sample
\* students and one that is not registered.
QrIds == { S101, <<"S","1","0","2">>, S01 }

\* The forms posted by two administrators at once: two students, each with
\* a photo of their own, and a form that is turned down.
StepForms ==
    { AddForm(Adi, Bus12, <<"0">>, << >>, PhotoJpg),
      AddForm(Diya, Bus12, <<"1">>, Amount15000,
              Photo(<<"i","d",".","j","p","g">>, "portrait-2")),
      AddForm(<<" ">>, <<"B","U","S">>, <<"0">>, << >>, NoPhoto) }

\* The students deleted while others are registered.
StepIds == { S01 }

StepOutcomes == { "none" }

\* The forms posted to tables of all kinds: photos named .JPG and .jpeg,
\* and a form that is turned down.
RegForms ==
    { AddForm(Adi, Bus12, <<"0">>, << >>, PhotoJpg),
      AddForm(Diya, Bus12, <<"1">>, Amount15000, PhotoJpeg),
      AddForm(<<" ">>, <<"B","U","S">>, <<"0">>, << >>, NoPhoto) }

\* The student deleted from them.
RegIds == { <<"S","0","2">> }

\* The login of the administrator who knows the password.
GoodLogins == { [username |-> "admin", password |-> "12345"] }

----------------------------------------------------------------------------
(* The handlers, each request run to completion *)

Idle(w) == pc[w] = "idle"

Receive(w, body) == req' = [req EXCEPT ![w] = body]

Respond(w, r) == resp' = [resp EXCEPT ![w] = r]

\* Mutant: the password is not compared.
admin_login_AnyPassword(w, form) ==
    /\ Idle(w)
    /\ Receive(w, NoReq)
    /\ IF form.username = "admin"
       THEN /\ session' = session \cup {"admin"}
            /\ Respond(w, Redirect("login ok"))
       ELSE /\ session' = session
            /\ Respond(w, Redirect("Invalid credentials"))
    /\ UNCHANGED <<students, scan_log, today, pc, loc, seen, files,
                    tickets_and_renewals>>

\* /admin_login
admin_login(w, form) ==
    /\ Idle(w)
    /\ Receive(w, NoReq)
    /\ IF form.username = "admin" /\ form.password = "12345"
       THEN /\ session' = session \cup {"admin"}
            /\ Respond(w, Redirect("login ok"))
       ELSE /\ session' = session
            /\ Respond(w, Redirect("Invalid credentials"))
    /\ UNCHANGED <<students, scan_log, today, pc, loc, seen, files,
                    tickets_and_renewals>>

\* /logout
logout(w) ==
    /\ Idle(w)
    /\ Receive(w, NoReq)
    /\ session' = session \ {"admin"}
    /\ Respond(w, Redirect("Logged out successfully"))
    /\ UNCHANGED <<students, scan_log, today, pc, loc, seen, files,
                    tickets_and_renewals>>

\* The errors list of add_student is non-empty.
AddErrors(form) ==
    \/ Strip(form.name) = << >>
    \/ ~validate_bus_id(Strip(form.bus_id))
    \/ form.photo.filename = << >>
    \/ ~validate_photo(form.photo.bytes)

\* The photo of the form saved as f"{student_id}{ext}" when it is present
\* and valid, whatever the other fields hold (495-506).
SavePhoto(fs, student_id, form) ==
    IF form.photo.filename # << >> /\ validate_photo(form.photo.bytes)
    THEN WriteFile(fs,
                   PhotoPath(student_id \o Lower(SplitExt(form.photo.filename))),
                   [kind |-> "photo", bytes |-> form.photo.bytes])
    ELSE fs

\* int(amount_paid_input) after strip() and replace(',', '')
AddAmount(form) == PyInt(RemoveChar(Strip(form.amount_paid), ","))

\* A student with the same name and bus number (and the same, here empty,
\* branch and semester) already exists.
AddDuplicate(store, form) ==
    \E i \in 1..Len(store) :
        /\ Lower(store[i].name) = Lower(Strip(form.name))
        /\ store[i].bus_id = Strip(form.bus_id)

\* The row add_student inserts (510-557).
NewStudent(student_id, day, form) ==
    LET fee_val == IF Strip(form.fee_paid) = <<"1">> THEN 1 ELSE 0
    IN  [student_id |-> student_id,
         name |-> Strip(form.name),
         bus_id |-> Strip(form.bus_id),
         fee_paid |-> fee_val,
         amount_paid |-> IF fee_val = 1 THEN <<FeeAmount>> ELSE << >>,
         transaction_date |-> IF fee_val = 1 THEN DateStr(day) ELSE << >>,
         valid_till |-> Plus365(DateStr(day))]

\* A table without the UNIQUE constraint accepts every insert.
IntegrityError_NoConstraint(store, student_id) == FALSE

\* The UNIQUE constraint on students.student_id rejects the insert.
IntegrityError(store, student_id) ==
    \E i \in 1..Len(store) : store[i].student_id = student_id

\* /add_student
add_student(w, form, outcome) ==
    /\ Idle(w)
    /\ Receive(w, NoReq)
    /\ LET student_id == generate_student_id(students)
           with_photo == SavePhoto(files, student_id, form)
           qr == generate_secure_qr(with_photo, student_id, outcome)
       IN  IF "admin" \notin session
           THEN /\ Respond(w, Redirect("Please login first"))
                /\ UNCHANGED <<students, files>>
           ELSE IF AddErrors(form)
           THEN /\ Respond(w, Redirect("invalid form"))
                /\ files' = with_photo
                /\ UNCHANGED students
           ELSE IF /\ Strip(form.fee_paid) = <<"1">>
                   /\ AddAmount(form) # <<FeeAmount>>
           THEN /\ Respond(w, Redirect("Amount must be exactly 15000 for Paid status."))
                /\ files' = with_photo
                /\ UNCHANGED students
           ELSE IF AddDuplicate(students, form)
           THEN /\ Respond(w, Redirect("A student with the same name already exists."))
                /\ files' = with_photo
                /\ UNCHANGED students
           ELSE IF IntegrityError(students, student_id)
           THEN /\ Respond(w, Redirect("Student ID already exists!"))
                /\ files' = with_photo
                /\ UNCHANGED students
           ELSE /\ students' = Append(students,
                                      NewStudent(student_id, today, form))
                /\ files' = qr.files
                /\ Respond(w, Redirect(IF qr.ok
                                       THEN "added successfully! QR code generated."
                                       ELSE "added successfully! (QR code generation failed)"))
    /\ UNCHANGED <<scan_log, today, session, pc, loc, seen,
                    tickets_and_renewals>>

\* /add_student, statement by statement: the session check and
\* generate_student_id, which reads the table on a connection of its own
\* (471-474).
AsGenerateId(w, form) ==
    /\ Idle(w)
    /\ Receive(w, NoReq)
    /\ IF "admin" \notin session
       THEN /\ Respond(w, Redirect("Please login first"))
            /\ UNCHANGED <<pc, loc>>
       ELSE /\ loc' = [loc EXCEPT ![w] =
                         [student_id |-> generate_student_id(students),
                          form |-> form]]
            /\ pc' = [pc EXCEPT ![w] = "as_validate"]
            /\ UNCHANGED resp
    /\ UNCHANGED <<students, scan_log, today, session, seen, files,
                    tickets_and_renewals>>

\* The validation of the form, which saves the photo, and the amount
\* (475-528).
AsValidate(w) ==
    /\ pc[w] = "as_validate"
    /\ files' = SavePhoto(files, loc[w].student_id, loc[w].form)
    /\ IF AddErrors(loc[w].form)
       THEN /\ Respond(w, Redirect("invalid form"))
            /\ pc' = [pc EXCEPT ![w] = "idle"]
            /\ loc' = [loc EXCEPT ![w] = NoLoc]
       ELSE IF /\ Strip(loc[w].form.fee_paid) = <<"1">>
               /\ AddAmount(loc[w].form) # <<FeeAmount>>
       THEN /\ Respond(w, Redirect("Amount must be exactly 15000 for Paid status."))
            /\ pc' = [pc EXCEPT ![w] = "idle"]
            /\ loc' = [loc EXCEPT ![w] = NoLoc]
       ELSE /\ pc' = [pc EXCEPT ![w] = "as_duplicates"]
            /\ UNCHANGED <<resp, loc>>
    /\ UNCHANGED <<students, scan_log, today, session, req, seen,
                    tickets_and_renewals>>

\* The SELECT COUNT(*) for a student of the same name (536-554).
AsDuplicates(w) ==
    /\ pc[w] = "as_duplicates"
    /\ IF AddDuplicate(students, loc[w].form)
       THEN /\ Respond(w, Redirect("A student with the same name already exists."))
            /\ pc' = [pc EXCEPT ![w] = "idle"]
            /\ loc' = [loc EXCEPT ![w] = NoLoc]
       ELSE /\ pc' = [pc EXCEPT ![w] = "as_insert"]
            /\ UNCHANGED <<resp, loc>>
    /\ UNCHANGED <<students, scan_log, today, session, req, seen, files,
                    tickets_and_renewals>>

\* The INSERT and its commit, or the IntegrityError of the UNIQUE
\* constraint (555-559, 566-568).
AsInsert(w) ==
    /\ pc[w] = "as_insert"
    /\ IF IntegrityError(students, loc[w].student_id)
       THEN /\ Respond(w, Redirect("Student ID already exists!"))
            /\ pc' = [pc EXCEPT ![w] = "idle"]
            /\ loc' = [loc EXCEPT ![w] = NoLoc]
            /\ UNCHANGED students
       ELSE /\ students' = Append(students,
                                  NewStudent(loc[w].student_id, today,
                                             loc[w].form))
            /\ pc' = [pc EXCEPT ![w] = "as_qr"]
            /\ UNCHANGED <<resp, loc>>
    /\ UNCHANGED <<scan_log, today, session, req, seen, files,
                    tickets_and_renewals>>

\* generate_secure_qr for the new student and the answer (560-573).
AsQr(w, outcome) ==
    /\ pc[w] = "as_qr"
    /\ LET qr == generate_secure_qr(files, loc[w].student_id, outcome)
       IN  /\ files' = qr.files
           /\ Respond(w, Redirect(IF qr.ok
                                  THEN "added successfully! QR code generated."
                                  ELSE "added successfully! (QR code generation failed)"))
    /\ pc' = [pc EXCEPT ![w] = "idle"]
    /\ loc' = [loc EXCEPT ![w] = NoLoc]
    /\ UNCHANGED <<students, scan_log, today, session, req, seen,
                    tickets_and_renewals>>

\* DELETE FROM students WHERE student_id=?
DeleteRows(store, student_id) ==
    SelectSeq(store, LAMBDA r : r.student_id # student_id)

\* /delete_student
\* The photo removed by delete_student: the .jpg of the student, or the
\* .png when there is no .jpg (887-891).
DeletePhoto(fs, student_id) ==
    LET jpg == PhotoPath(student_id \o JpgExt)
        png == PhotoPath(student_id \o PngExt)
        photo_path == IF ~Exists(fs, jpg) THEN png ELSE jpg
    IN  IF Exists(fs, photo_path) THEN RemoveFile(fs, photo_path) ELSE fs

\* A deletion that cascades to the scan events of the student.
delete_student_Cascade(w, student_id) ==
    /\ Idle(w)
    /\ Receive(w, NoReq)
    /\ IF "admin" \notin session
       THEN /\ Respond(w, Redirect("Please login first"))
            /\ UNCHANGED <<students, files, scan_log>>
       ELSE /\ students' = DeleteRows(students, student_id)
            /\ files' = DeletePhoto(delete_qr_file(files, student_id),
                                    student_id)
            /\ scan_log' = SelectSeq(scan_log,
                              LAMBDA e : e.student_id # student_id)
            /\ Respond(w, Redirect("deleted successfully"))
    /\ UNCHANGED <<today, session, pc, loc, seen, tickets_and_renewals>>

delete_student(w, student_id) ==
    /\ Idle(w)
    /\ Receive(w, NoReq)
    /\ IF "admin" \notin session
       THEN /\ Respond(w, Redirect("Please login first"))
            /\ UNCHANGED <<students, files>>
       ELSE /\ students' = DeleteRows(students, student_id)
            /\ files' = DeletePhoto(delete_qr_file(files, student_id),
                                    student_id)
            /\ Respond(w, Redirect("deleted successfully"))
    /\ UNCHANGED <<scan_log, today, session, pc, loc, seen,
                    tickets_and_renewals>>

\* UPDATE students SET fee_paid=1 WHERE student_id=?
SetPaid(store, student_id) ==
    [i \in 1..Len(store) |->
        IF store[i].student_id = student_id
        THEN [store[i] EXCEPT !.fee_paid = 1]
        ELSE store[i]]

\* /mark_paid
mark_paid(w, student_id) ==
    /\ Idle(w)
    /\ Receive(w, NoReq)
    /\ students' = SetPaid(students, student_id)
    /\ Respond(w, Redirect("marked as Paid"))
    /\ UNCHANGED <<scan_log, today, session, pc, loc, seen, files,
                    tickets_and_renewals>>

\* UPDATE students SET fee_paid=1, amount_paid=?, transaction_date=?
\* WHERE student_id=?
SetPaidAmount(store, student_id, amount, date) ==
    [i \in 1..Len(store) |->
        IF store[i].student_id = student_id
        THEN [store[i] EXCEPT !.fee_paid = 1, !.amount_paid = <<amount>>,
                              !.transaction_date = date]
        ELSE store[i]]

\* /mark_paid_admin
mark_paid_admin(w, student_id, amount_paid) ==
    /\ Idle(w)
    /\ Receive(w, NoReq)
    /\ LET cleaned == RemoveChar(RemoveChar(Strip(amount_paid), ","), " ")
           amount == IF cleaned # << >> THEN PyInt(cleaned) ELSE << >>
       IN  IF "admin" \notin session
           THEN /\ Respond(w, Redirect("login page"))
                /\ UNCHANGED students
           ELSE IF amount # <<FeeAmount>>
           THEN /\ Respond(w, Redirect("Amount must be exactly 15000"))
                /\ UNCHANGED students
           ELSE /\ students' = SetPaidAmount(students, student_id, amount[1],
                                            DateStr(today))
                /\ Respond(w, Redirect("marked as Paid with amount"))
    /\ UNCHANGED <<scan_log, today, session, pc, loc, seen, files,
                    tickets_and_renewals>>

\* SELECT name FROM students WHERE student_id=? returns a row.
Registered(store, student_id) ==
    \E i \in 1..Len(store) : store[i].student_id = student_id

\* /generate_qr, open to everyone
generate_qr(w, student_id, outcome) ==
    /\ Idle(w)
    /\ Receive(w, NoReq)
    /\ LET qr == generate_secure_qr(files, student_id, outcome)
       IN  IF ~Registered(students, student_id)
           THEN /\ Respond(w, Redirect("Student ID not found!"))
                /\ UNCHANGED files
           ELSE /\ files' = qr.files
                /\ Respond(w, Redirect(IF qr.ok THEN "QR code generated"
                                       ELSE "QR generation failed"))
    /\ UNCHANGED <<students, scan_log, today, session, pc, loc, seen,
                    tickets_and_renewals>>

\* /generate_qr_admin
generate_qr_admin(w, student_id, outcome) ==
    /\ Idle(w)
    /\ Receive(w, NoReq)
    /\ LET qr == generate_secure_qr(files, student_id, outcome)
       IN  IF "admin" \notin session
           THEN /\ Respond(w, Redirect("Please login first"))
                /\ UNCHANGED files
           ELSE IF ~Registered(students, student_id)
           THEN /\ Respond(w, Redirect("Student ID not found!"))
                /\ UNCHANGED files
           ELSE /\ files' = qr.files
                /\ Respond(w, Redirect(IF qr.ok THEN "QR generated"
                                       ELSE "QR generation failed"))
    /\ UNCHANGED <<students, scan_log, today, session, pc, loc, seen,
                    tickets_and_renewals>>

\* UPDATE students SET valid_till=? WHERE student_id=?
SetValidTill(store, student_id, new_valid) ==
    [i \in 1..Len(store) |->
        IF store[i].student_id = student_id
        THEN [store[i] EXCEPT !.valid_till = new_valid]
        ELSE store[i]]

\* /renew_transport
renew_transport(w, student_id) ==
    /\ Idle(w)
    /\ Receive(w, NoReq)
    /\ IF "admin" \notin session
       THEN /\ Respond(w, Redirect("login page"))
            /\ UNCHANGED <<students, renewal_history>>
       ELSE IF ~Registered(students, student_id)
       THEN /\ Respond(w, Redirect("Student not found"))
            /\ UNCHANGED <<students, renewal_history>>
       ELSE LET row == students[CHOOSE i \in 1..Len(students) :
                                  /\ students[i].student_id = student_id
                                  /\ \A j \in 1..(i - 1) :
                                        students[j].student_id # student_id]
                current_valid == row.valid_till
                new_valid == IF current_valid # << >>
                             THEN Plus365(current_valid)
                             ELSE Plus365(DateStr(today))
            IN  /\ Len(renewal_history) < MaxRenewals
                /\ students' = SetValidTill(students, student_id, new_valid)
                /\ renewal_history' =
                      Append(renewal_history,
                             [student_id |-> student_id,
                              renewed_date |-> DateStr(today),
                              previous_valid_till |-> current_valid,
                              new_valid_till |-> new_valid])
                /\ Respond(w, Redirect("Transport renewed"))
    /\ UNCHANGED <<scan_log, today, session, pc, loc, seen, files,
                    help_tickets, sqlite_sequence>>

\* /student_issue, POST
student_issue(w, form) ==
    /\ Idle(w)
    /\ Receive(w, NoReq)
    /\ IF form.name # << >> /\ form.usn # << >> /\ form.issue # << >>
       THEN /\ sqlite_sequence < MaxTickets
            /\ sqlite_sequence' = sqlite_sequence + 1
            /\ help_tickets' =
                  Append(help_tickets,
                         [id |-> sqlite_sequence + 1, usn |-> form.usn,
                          timestamp |-> DateStr(today), status |-> "Open",
                          resolved_at |-> << >>])
            /\ Respond(w, Redirect("Ticket submitted successfully!"))
       ELSE /\ Respond(w, Redirect("Please fill all fields."))
            /\ UNCHANGED <<help_tickets, sqlite_sequence>>
    /\ UNCHANGED <<students, scan_log, today, session, pc, loc, seen, files,
                    renewal_history>>

\* The hour and the minute of a time of day of the wall clock.
HourMinute(t) == CASE t = "08:15:00" -> <<8, 15>>

\* strftime("%Y-%m-%d %H:%M:%S"): year, month, day, hour, minute, second.
Stamp(date, t) == date \o HourMinute(t) \o <<0>>

\* /resolve_ticket/<ticket_id>
resolve_ticket(w, ticket_id, t) ==
    /\ Idle(w)
    /\ Receive(w, NoReq)
    /\ IF "admin" \notin session
       THEN /\ Respond(w, Redirect("login page"))
            /\ UNCHANGED help_tickets
       ELSE /\ help_tickets' =
                  [i \in 1..Len(help_tickets) |->
                      IF help_tickets[i].id = ticket_id
                      THEN [help_tickets[i] EXCEPT
                               !.status = "Resolved",
                               !.resolved_at = Stamp(DateStr(today), t)]
                      ELSE help_tickets[i]]
            /\ Respond(w, Redirect("Ticket resolved."))
    /\ UNCHANGED <<students, scan_log, today, session, pc, loc, seen, files,
                    sqlite_sequence, renewal_history>>

\* The date a number of days before a date.
RECURSIVE DaysBefore(_, _)
DaysBefore(date, n) == IF n = 0 THEN date ELSE DaysBefore(PrevDay(date), n - 1)

\* datetime('now', '-5 days'): SQLite takes now in UTC, which is the wall
\* clock of the server less the offset of its time zone in minutes, and
\* writes it in the format of strftime above.
SqliteNowLess(day, t, utc_offset, days) ==
    LET local == HourMinute(t)[1] * 60 + HourMinute(t)[2]
        utc == local - utc_offset
        date == IF utc < 0 THEN PrevDay(DateStr(day)) ELSE DateStr(day)
        minute == IF utc < 0 THEN utc + 1440 ELSE utc
    IN  DaysBefore(date, days) \o <<minute \div 60, minute % 60, 0>>

\* a <= b for two texts of the same format: the first field that differs
\* decides.
RECURSIVE TextLeq(_, _)
TextLeq(a, b) ==
    IF a = << >> \/ b = << >> THEN a = << >>
    ELSE IF Head(a) # Head(b) THEN Head(a) < Head(b)
    ELSE TextLeq(Tail(a), Tail(b))

\* DELETE FROM help_tickets WHERE status='Resolved'
\*   AND resolved_at <= datetime('now', '-5 days')
PruneTickets(tickets, day, t, utc_offset) ==
    SelectSeq(tickets,
              LAMBDA k : ~(/\ k.status = "Resolved"
                           /\ k.resolved_at # << >>
                           /\ TextLeq(k.resolved_at,
                                      SqliteNowLess(day, t, utc_offset,
                                                    PruneAge))))

\* /admin_dashboard
admin_dashboard(w, t, utc_offset) ==
    /\ Idle(w)
    /\ Receive(w, NoReq)
    /\ IF "admin" \notin session
       THEN /\ Respond(w, Redirect("Please login first"))
            /\ UNCHANGED help_tickets
       ELSE /\ help_tickets' = PruneTickets(help_tickets, today, t, utc_offset)
            /\ Respond(w, [status |-> "dashboard"])
    /\ UNCHANGED <<students, scan_log, today, session, pc, loc, seen, files,
                    sqlite_sequence, renewal_history>>

----------------------------------------------------------------------------
(* /verify_qr *)

\* Mutant: the event is written once for the scan and once for the audit.
RecordScan_Twice(log, student_id, date, time) ==
    Append(Append(log, ScanEvent(student_id, date, time)),
           ScanEvent(student_id, date, time))

\* Mutant: the insert is never committed.
RecordScan_NotCommitted(log, student_id, date, time) == log

\* INSERT INTO scan_log (student_id, scan_date, scan_time) VALUES (?, ?, ?)
RecordScan(log, student_id, date, time) ==
    Append(log, ScanEvent(student_id, date, time))

Verdict(student_id, date) == seen' = seen \cup {<<student_id, date>>}

\* Mutant: the event is inserted before the guard returns.
GuardedLog_AlwaysInserts(log, student_id, date, time) ==
    RecordScan(log, student_id, date, time)

\* The scan log after the duplicate guard: unchanged when the student was
\* already scanned on that date, one event longer otherwise (745-762).
GuardedLog(log, student_id, date, time) ==
    IF AlreadyScanned(log, student_id, date)
    THEN log
    ELSE RecordScan(log, student_id, date, time)

\* The response for a resolved row after the duplicate guard (745-782).
GuardedResponse(log, row, date) ==
    IF AlreadyScanned(log, row.student_id, date)
    THEN RespDuplicate(row)
    ELSE RespDecision(row)

\* /verify_qr, run to completion.
verify_qr(w, data, current_time) ==
    /\ Idle(w)
    /\ Receive(w, data)
    /\ LET query == ParseQuery(data)
           out == Resolve(students, query)
           date == DateStr(today)
       IN  IF query = << >>
           THEN /\ Respond(w, RespNoIdentifier)
                /\ UNCHANGED <<scan_log, seen>>
           ELSE IF out.kind = "Multiple"
           THEN /\ Respond(w, RespMultiple(out.matches))
                /\ UNCHANGED <<scan_log, seen>>
           ELSE IF out.kind = "NotFound"
           THEN /\ Respond(w, RespNotFound)
                /\ UNCHANGED <<scan_log, seen>>
           ELSE /\ \/ AlreadyScanned(scan_log, out.row.student_id, date)
                   \/ Len(scan_log) < MaxLog
                /\ scan_log' = GuardedLog(scan_log, out.row.student_id, date,
                                          current_time)
                /\ Respond(w, GuardedResponse(scan_log, out.row, date))
                /\ Verdict(out.row.student_id, date)
    /\ UNCHANGED <<students, today, session, pc, loc, files,
                    tickets_and_renewals>>

\* /verify_qr up to the resolved row and the clock reading (667-744).
VqResolve(w, data, current_time) ==
    /\ Idle(w)
    /\ Receive(w, data)
    /\ LET query == ParseQuery(data)
           out == Resolve(students, query)
       IN  IF query = << >>
           THEN Respond(w, RespNoIdentifier) /\ UNCHANGED <<pc, loc>>
           ELSE IF out.kind = "Multiple"
           THEN Respond(w, RespMultiple(out.matches)) /\ UNCHANGED <<pc, loc>>
           ELSE IF out.kind = "NotFound"
           THEN Respond(w, RespNotFound) /\ UNCHANGED <<pc, loc>>
           ELSE /\ pc' = [pc EXCEPT ![w] = "check"]
                /\ loc' = [loc EXCEPT ![w] = [row |-> out.row,
                                              today |-> DateStr(today),
                                              current_time |-> current_time]]
                /\ UNCHANGED resp
    /\ UNCHANGED <<students, scan_log, today, session, seen, files,
                    tickets_and_renewals>>

\* /verify_qr: the read of the scan log (745-755).
VqCheck(w) ==
    /\ pc[w] = "check"
    /\ IF AlreadyScanned(scan_log, loc[w].row.student_id, loc[w].today)
       THEN /\ Respond(w, RespDuplicate(loc[w].row))
            /\ Verdict(loc[w].row.student_id, loc[w].today)
            /\ pc' = [pc EXCEPT ![w] = "idle"]
            /\ loc' = [loc EXCEPT ![w] = NoLoc]
       ELSE /\ pc' = [pc EXCEPT ![w] = "insert"]
            /\ UNCHANGED <<resp, seen, loc>>
    /\ UNCHANGED <<students, scan_log, today, session, req, files,
                    tickets_and_renewals>>

\* Mutant: a unique index on (student_id, scan_date) rejects the insert of
\* a second event, and the request fails.
VqInsert_UniqueIndex(w) ==
    /\ pc[w] = "insert"
    /\ Len(scan_log) < MaxLog
    /\ IF AlreadyScanned(scan_log, loc[w].row.student_id, loc[w].today)
       THEN /\ Respond(w, [status |-> "Internal Server Error"])
            /\ UNCHANGED <<scan_log, seen>>
       ELSE /\ scan_log' = RecordScan(scan_log, loc[w].row.student_id,
                                     loc[w].today, loc[w].current_time)
            /\ Respond(w, RespDecision(loc[w].row))
            /\ Verdict(loc[w].row.student_id, loc[w].today)
    /\ pc' = [pc EXCEPT ![w] = "idle"]
    /\ loc' = [loc EXCEPT ![w] = NoLoc]
    /\ UNCHANGED <<students, today, session, req, files,
                    tickets_and_renewals>>

\* /verify_qr: the insert into the scan log and the decision (756-782).
VqInsert(w) ==
    /\ pc[w] = "insert"
    /\ Len(scan_log) < MaxLog
    /\ scan_log' = RecordScan(scan_log, loc[w].row.student_id, loc[w].today,
                              loc[w].current_time)
    /\ Respond(w, RespDecision(loc[w].row))
    /\ Verdict(loc[w].row.student_id, loc[w].today)
    /\ pc' = [pc EXCEPT ![w] = "idle"]
    /\ loc' = [loc EXCEPT ![w] = NoLoc]
    /\ UNCHANGED <<students, today, session, req, files,
                    tickets_and_renewals>>

\* Midnight: the wall clock moves to the next calendar day.
Tick ==
    /\ today < MaxDay
    /\ today' = today + 1
    /\ UNCHANGED <<students, scan_log, session, pc, loc, req, resp, seen,
                    files, tickets_and_renewals>>

----------------------------------------------------------------------------
(* The application serving one request at a time, from the table that
   database_setup.py creates *)

Row(student_id, name, bus_id, fee_paid, amount_paid, transaction_date) ==
    [student_id |-> student_id, name |-> name, bus_id |-> bus_id,
     fee_paid |-> fee_paid, amount_paid |-> amount_paid,
     transaction_date |-> transaction_date, valid_till |-> << >>]

\* The sample rows: S101 Aarav Mehta, BUS1, paid; S102 Diya Patel, BUS1,
\* not paid. The columns added later start NULL.
SampleRows ==
    << Row(<<"S","1","0","1">>,
           <<"A","a","r","a","v"," ","M","e","h","t","a">>,
           <<"B","U","S","1">>, 1, << >>, << >>),
       Row(<<"S","1","0","2">>,
           <<"D","i","y","a"," ","P","a","t","e","l">>,
           <<"B","U","S","1">>, 0, << >>, << >>) >>

Init ==
    /\ students = SampleRows
    /\ scan_log = << >>
    /\ today = 1
    /\ session = {}
    /\ pc = [w \in Workers |-> "idle"]
    /\ loc = [w \in Workers |-> NoLoc]
    /\ req = [w \in Workers |-> NoReq]
    /\ resp = [w \in Workers |-> NoResp]
    /\ seen = {}
    /\ files = NoFiles
    /\ help_tickets = << >>
    /\ sqlite_sequence = 0
    /\ renewal_history = << >>

Next ==
    \/ \E w \in SeqWorkers, form \in GoodLogins : admin_login(w, form)
    \/ \E w \in SeqWorkers : logout(w)
    \/ \E w \in SeqWorkers, form \in SeqForms, o \in SeqOutcomes :
          add_student(w, form, o)
    \/ \E w \in SeqWorkers, id \in FormIds : delete_student(w, id)
    \/ \E w \in SeqWorkers, id \in FormIds : mark_paid(w, id)
    \/ \E w \in SeqWorkers, id \in FormIds, a \in AmountTexts :
          mark_paid_admin(w, id, a)
    \/ \E w \in SeqWorkers, data \in ScanBodies, t \in Times :
          verify_qr(w, data, t)
    \/ Tick

Spec == Init /\ [][Next]_vars

----------------------------------------------------------------------------
(* The resolver applied to a family of student tables *)

NameCycle == <<Adi, Aditi, Diya, NameS01>>
BusCycle == <<Bus12, Bus123, Bus21>>

\* The i-th registered student: the names and routes cycle, every other
\* student has paid, alternately through /mark_paid_admin and /mark_paid.
PoolRow(i) ==
    [student_id |-> FormatId(i),
     name |-> NameCycle[((i - 1) % Len(NameCycle)) + 1],
     bus_id |-> BusCycle[((i - 1) % Len(BusCycle)) + 1],
     fee_paid |-> i % 2,
     amount_paid |-> IF i % 4 = 1 THEN <<FeeAmount>> ELSE << >>,
     transaction_date |-> IF i % 4 = 1 THEN DateStr(1) ELSE << >>,
     valid_till |-> Plus365(DateStr(1))]

\* The table after the students numbered in S were registered in turn and
\* the others deleted.
RECURSIVE PoolStore(_, _)
PoolStore(S, i) ==
    IF i > MaxStore THEN << >>
    ELSE (IF i \in S THEN <<PoolRow(i)>> ELSE << >>) \o PoolStore(S, i + 1)

Stores == { PoolStore(S, 1) : S \in SUBSET (1..MaxStore) }

ResolveInit ==
    /\ students \in Stores
    /\ scan_log = << >>
    /\ today = 1
    /\ session = {}
    /\ pc = [w \in Workers |-> "idle"]
    /\ loc = [w \in Workers |-> NoLoc]
    /\ req = [w \in Workers |-> NoReq]
    /\ resp = [w \in Workers |-> NoResp]
    /\ seen = {}
    /\ files = NoFiles
    /\ help_tickets = << >>
    /\ sqlite_sequence = 0
    /\ renewal_history = << >>

\* The resolver reads the student table alone: it is applied to each table
\* while the scan log is still empty.
ResolveNext ==
    \E w \in SeqWorkers, data \in ResolveBodies, t \in Times :
        scan_log = << >> /\ verify_qr(w, data, t)

ResolveSpec == ResolveInit /\ [][ResolveNext]_vars

----------------------------------------------------------------------------
(* Two worker threads serving the public requests concurrently: each
   statement of /verify_qr on the scan log is a step of its own *)

ConcInit ==
    /\ students = PoolStore({1, 2}, 1)
    /\ scan_log = << >>
    /\ today = 1
    /\ session = {}
    /\ pc = [w \in Workers |-> "idle"]
    /\ loc = [w \in Workers |-> NoLoc]
    /\ req = [w \in Workers |-> NoReq]
    /\ resp = [w \in Workers |-> NoResp]
    /\ seen = {}
    /\ files = NoFiles
    /\ help_tickets = << >>
    /\ sqlite_sequence = 0
    /\ renewal_history = << >>

ConcNext ==
    \/ \E w \in Workers, data \in ConcBodies, t \in Times :
          VqResolve(w, data, t)
    \/ \E w \in Workers : VqCheck(w)
    \/ \E w \in Workers : VqInsert(w)
    \/ \E w \in Workers, id \in FormIds : mark_paid(w, id)
    \/ Tick

ConcSpec == ConcInit /\ [][ConcNext]_vars

----------------------------------------------------------------------------
(* Every operation of the application, one request at a time, within one
   calendar day *)

AppNext ==
    \/ \E w \in SeqWorkers, form \in Logins : admin_login(w, form)
    \/ \E w \in SeqWorkers : logout(w)
    \/ \E w \in SeqWorkers, form \in AppForms, o \in AppOutcomes :
          add_student(w, form, o)
    \/ \E w \in SeqWorkers, id \in AppIds : delete_student(w, id)
    \/ \E w \in SeqWorkers, id \in AppIds : mark_paid(w, id)
    \/ \E w \in SeqWorkers, id \in AppIds, a \in AppAmounts :
          mark_paid_admin(w, id, a)
    \/ \E w \in SeqWorkers, id \in AppIds, o \in AppOutcomes :
          generate_qr(w, id, o)
    \/ \E w \in SeqWorkers, id \in AppIds, o \in AppOutcomes :
          generate_qr_admin(w, id, o)
    \/ \E w \in SeqWorkers, id \in AppIds : renew_transport(w, id)
    \/ \E w \in SeqWorkers, form \in TicketForms : student_issue(w, form)
    \/ \E w \in SeqWorkers, id \in TicketIds, t \in Times :
          resolve_ticket(w, id, t)
    \/ \E w \in SeqWorkers, t \in Times, z \in AppOffsets :
          admin_dashboard(w, t, z)
    \/ \E w \in SeqWorkers, data \in AppBodies, t \in Times :
          verify_qr(w, data, t)

AppSpec == Init /\ [][AppNext]_vars

----------------------------------------------------------------------------
(* Two worker threads registering students concurrently, each statement of
   /add_student on the table or the files a step of its own *)

AddNext ==
    \/ \E w \in Workers, form \in GoodLogins : admin_login(w, form)
    \/ \E w \in Workers, form \in StepForms : AsGenerateId(w, form)
    \/ \E w \in Workers : AsValidate(w)
    \/ \E w \in Workers : AsDuplicates(w)
    \/ \E w \in Workers : AsInsert(w)
    \/ \E w \in Workers, o \in StepOutcomes : AsQr(w, o)
    \/ \E w \in Workers, id \in StepIds : delete_student(w, id)

AddSpec == Init /\ [][AddNext]_vars

----------------------------------------------------------------------------
(* Students registered and deleted one request at a time, in tables whose
   identifiers have gaps, no padding or no number *)

\* A student registered earlier under the given identifier; the names are
\* all different.
IdRow(student_id) ==
    Row(student_id, <<"N">> \o student_id, <<"7">>, 0, << >>, << >>)

\* The tables at the start: empty; S01 and S03; the unpadded S1; S007 before
\* S02 and S01; an identifier without a number; S01 to S09.
IdStores ==
    { << >>,
      << IdRow(S01), IdRow(<<"S","0","3">>) >>,
      << IdRow(<<"S","1">>) >>,
      << IdRow(<<"S","0","0","7">>), IdRow(<<"S","0","2">>), IdRow(S01) >>,
      << IdRow(<<"A","D","M">>), IdRow(S01) >>,
      [i \in 1..9 |-> IdRow(FormatId(i))] }

RegInit ==
    /\ students \in IdStores
    /\ scan_log = << >>
    /\ today = 1
    /\ session = {}
    /\ pc = [w \in Workers |-> "idle"]
    /\ loc = [w \in Workers |-> NoLoc]
    /\ req = [w \in Workers |-> NoReq]
    /\ resp = [w \in Workers |-> NoResp]
    /\ seen = {}
    /\ files = NoFiles
    /\ help_tickets = << >>
    /\ sqlite_sequence = 0
    /\ renewal_history = << >>

RegNext ==
    \/ \E w \in SeqWorkers, form \in GoodLogins : admin_login(w, form)
    \/ \E w \in SeqWorkers, form \in RegForms, o \in StepOutcomes :
          add_student(w, form, o)
    \/ \E w \in SeqWorkers, id \in RegIds : delete_student(w, id)

RegSpec == RegInit /\ [][RegNext]_vars

----------------------------------------------------------------------------
(* The help tickets over a week, on servers of three time zones *)

\* Midnight, within the week the tickets are followed.
TicketTick ==
    /\ today < MaxTicketDay
    /\ today' = today + 1
    /\ UNCHANGED <<students, scan_log, session, pc, loc, req, resp, seen,
                    files, tickets_and_renewals>>

TicketNext ==
    \/ \E w \in SeqWorkers, form \in GoodLogins : admin_login(w, form)
    \/ \E w \in SeqWorkers : logout(w)
    \/ \E w \in SeqWorkers, form \in TicketForms : student_issue(w, form)
    \/ \E w \in SeqWorkers, id \in TicketIds, t \in Times :
          resolve_ticket(w, id, t)
    \/ \E w \in SeqWorkers, t \in Times, z \in UtcOffsets :
          admin_dashboard(w, t, z)
    \/ TicketTick

TicketSpec == Init /\ [][TicketNext]_vars

----------------------------------------------------------------------------
(* The QR codes generated on request, any step of the generation failing *)

QrNext ==
    \/ \E w \in SeqWorkers, form \in GoodLogins : admin_login(w, form)
    \/ \E w \in SeqWorkers, id \in QrIds, o \in QrOutcomes :
          generate_qr(w, id, o)
    \/ \E w \in SeqWorkers, id \in QrIds, o \in QrOutcomes :
          generate_qr_admin(w, id, o)

QrSpec == Init /\ [][QrNext]_vars

----------------------------------------------------------------------------
(* Properties *)

\* The response carries a verdict of the duplicate guard.
IsVerdict(r) == r.status \in {"success", "duplicate"}

\* The positions of the scan log that hold an event of a student and date.
EventsOf(student_id, date) ==
    { i \in 1..Len(scan_log) :
        scan_log[i].student_id = student_id /\ scan_log[i].scan_date = date }

\* A step is a /verify_qr request, run to completion by worker w, that
\* resolved to a single student.
ScanStep(w) ==
    /\ \E data \in ScanBodies, t \in Times : verify_qr(w, data, t)
    /\ IsVerdict(resp'[w])

\* C1: with the requests run one after another, a request that resolves to
\* a student is answered Fresh (duplicate flag false) when no earlier
\* request was answered for that student on that date, and Duplicate
\* (duplicate flag true) when one was: Fresh the first time, Duplicate the
\* second time and every later time.
C1_FreshThenDuplicate ==
    [][\A w \in Workers :
          ScanStep(w) =>
              resp'[w].duplicate =
                  (<<resp'[w].student_data.student_id, DateStr(today)>> \in seen)
      ]_vars

\* A Duplicate answer to a student who was answered before on that date.
C1_Witness ==
    \E w \in Workers :
        /\ req[w] # NoReq
        /\ resp[w].status = "duplicate"
        /\ resp[w].duplicate = TRUE
        /\ <<resp[w].student_data.student_id, DateStr(today)>> \in seen
        /\ EventsOf(resp[w].student_data.student_id, DateStr(today)) # {}

\* C2: with the requests run one at a time, the scan log never holds two
\* events of the same student identifier and calendar date.
C2_OneEventPerStudentAndDate ==
    \A i, j \in 1..Len(scan_log) :
        (/\ scan_log[i].student_id = scan_log[j].student_id
         /\ scan_log[i].scan_date = scan_log[j].scan_date) => i = j

\* Two students scanned on one date, and a repeated scan turned away.
C2_Witness ==
    /\ Len(scan_log) = 2
    /\ scan_log[1].scan_date = scan_log[2].scan_date
    /\ scan_log[1].student_id # scan_log[2].student_id
    /\ \E w \in Workers : resp[w].status = "duplicate"

\* C3: a request that has read the scan log and found no event of its
\* student and date inserts its event and answers Fresh whatever was
\* inserted in between: of two requests that both read before either
\* inserts, both answer Fresh and the log ends with both events.
C3_RacingScansBothFresh ==
    [][\A w \in Workers :
          (pc[w] = "insert" /\ pc'[w] = "idle") =>
              /\ resp'[w].status = "success"
              /\ resp'[w].duplicate = FALSE
              /\ scan_log' = Append(scan_log,
                                    ScanEvent(loc[w].row.student_id,
                                              loc[w].today,
                                              loc[w].current_time))
      ]_vars

\* Both workers answered Fresh for one student, and the log holds two
\* events of that student on one date.
C3_Witness ==
    /\ \A w \in Workers :
          /\ pc[w] = "idle"
          /\ resp[w].status = "success"
          /\ resp[w].duplicate = FALSE
          /\ resp[w].student_data.student_id = S01
    /\ \E d \in Days : Cardinality(EventsOf(S01, DateStr(d))) = 2

\* C4: a request answered Duplicate leaves the scan log and the student
\* table as they were.
C4_DuplicateChangesNothing ==
    [][\A w \in Workers :
          (ScanStep(w) /\ resp'[w].status = "duplicate") =>
              (scan_log' = scan_log /\ students' = students)
      ]_vars

\* A Duplicate answer, with the one event of the first scan in the log.
C4_Witness ==
    \E w \in Workers :
        /\ resp[w].status = "duplicate"
        /\ Cardinality(EventsOf(resp[w].student_data.student_id,
                                DateStr(today))) = 1
        /\ \E i \in 1..Len(students) :
              students[i].student_id = resp[w].student_data.student_id

\* C5: the guard is keyed by student and date: a request that resolves to
\* a student with no event of that student on today's date is answered
\* Fresh, whatever events of that student on other dates or of other
\* students on today's date the log holds.
C5_GuardKeyedByStudentAndDate ==
    [][\A w \in Workers :
          (/\ ScanStep(w)
           /\ EventsOf(resp'[w].student_data.student_id, DateStr(today)) = {})
          => (resp'[w].status = "success" /\ resp'[w].duplicate = FALSE)
      ]_vars

\* A Fresh answer to a student whose scan of an earlier date is in the log.
C5_Witness ==
    \E w \in Workers :
        /\ resp[w].status = "success"
        /\ resp[w].duplicate = FALSE
        /\ \E i \in 1..Len(scan_log) :
              /\ scan_log[i].student_id = resp[w].student_data.student_id
              /\ scan_log[i].scan_date # DateStr(today)
        /\ EventsOf(resp[w].student_data.student_id, DateStr(today)) # {}

\* The rows of the student table that hold an identifier.
RowsOf(student_id) ==
    { i \in 1..Len(students) : students[i].student_id = student_id }

C7_DuplicateCarriesStudentSummary ==
    \A w \in Workers :
        /\ resp[w].status = "duplicate" =>
              /\ resp[w].duplicate = TRUE
              /\ resp[w].student_data # Null
              /\ \E i \in 1..Len(students) :
                    /\ resp[w].student_data.student_id = students[i].student_id
                    /\ resp[w].student_data.name = students[i].name
                    /\ resp[w].student_data.bus_id = students[i].bus_id
                    /\ resp[w].student_data.fee_paid = students[i].fee_paid
        /\ resp[w].status = "success" => resp[w].duplicate = FALSE

\* A Duplicate answer for a student who has not paid.
C7_Witness ==
    \E w \in Workers :
        /\ resp[w].status = "duplicate"
        /\ resp[w].duplicate = TRUE
        /\ resp[w].student_data # Null
        /\ resp[w].student_data.fee_paid = 0
        /\ EventsOf(resp[w].student_data.student_id, DateStr(today)) # {}

\* Two characters are the same up to letter case.
SameLetter(x, y) ==
    \/ x = y
    \/ \E n \in 1..Len(UpperCase) : {x, y} = {UpperCase[n], LowerCase[n]}

\* Two texts are the same up to letter case.
EqUpToCase(a, b) ==
    Len(a) = Len(b) /\ \A k \in 1..Len(a) : SameLetter(a[k], b[k])

\* Text q occurs in text a, up to letter case.
OccursIn(q, a) ==
    \E start \in 1..(Len(a) - Len(q) + 1) :
        EqUpToCase(SubSeq(a, start, start + Len(q) - 1), q)

\* Worker w has answered a /verify_qr request with a non-empty query.
Answered(w) == req[w] # NoReq /\ pc[w] = "idle" /\ ParseQuery(req[w]) # << >>

\* The rows whose identifier is the query up to letter case.
IdTier(q) == { i \in 1..Len(students) : EqUpToCase(students[i].student_id, q) }

\* C8: a query that equals a student's identifier up to letter case
\* resolves to exactly that student's record, also when another student's
\* name or route matches the query.
C8_IdentifierTierWins ==
    \A w \in Workers :
        Answered(w) =>
            \A i \in IdTier(ParseQuery(req[w])) :
                /\ IsVerdict(resp[w])
                /\ resp[w].student_data = StudentData(students[i])

\* The query s01 answered with student S01 while another student is named
\* S01.
C8_Witness ==
    \E w \in Workers :
        /\ Answered(w)
        /\ ParseQuery(req[w]) = <<"s","0","1">>
        /\ IsVerdict(resp[w])
        /\ resp[w].student_data.student_id = S01
        /\ \E j \in 1..Len(students) :
              /\ students[j].student_id # S01
              /\ EqUpToCase(students[j].name, ParseQuery(req[w]))

\* The tiers after the identifier tier, for the form of the query: the rows
\* whose route (all-digit query) or name (any other query) is the query,
\* then those whose route or name contains it.
ExactTier(q) ==
    IF IsDigit(q)
    THEN { i \in 1..Len(students) : students[i].bus_id = q }
    ELSE { i \in 1..Len(students) : EqUpToCase(students[i].name, q) }

SubstringTier(q) ==
    IF IsDigit(q)
    THEN { i \in 1..Len(students) : OccursIn(q, students[i].bus_id) }
    ELSE { i \in 1..Len(students) : OccursIn(q, students[i].name) }

\* The first of the two tiers that yields candidates.
DecidingTier(q) == IF ExactTier(q) # {} THEN ExactTier(q) ELSE SubstringTier(q)

\* C9: when the identifier tier yields nothing, the first later tier that
\* yields candidates decides: one candidate gives that student's record,
\* n > 1 candidates give the Multiple outcome with min(n, 5) candidates,
\* each the identifier, name and route of a row of that tier.
C9_FirstTierWithCandidatesDecides ==
    \A w \in Workers :
        (Answered(w) /\ IdTier(ParseQuery(req[w])) = {}) =>
            LET tier == DecidingTier(ParseQuery(req[w]))
                n == Cardinality(tier)
            IN  /\ n = 1 =>
                      /\ IsVerdict(resp[w])
                      /\ \A i \in tier :
                            resp[w].student_data = StudentData(students[i])
                /\ n > 1 =>
                      /\ resp[w].status = "Multiple"
                      /\ Len(resp[w].matches) = (IF n < 5 THEN n ELSE 5)
                      /\ \A k \in 1..Len(resp[w].matches) :
                            \E i \in tier :
                                resp[w].matches[k] =
                                    [student_id |-> students[i].student_id,
                                     name |-> students[i].name,
                                     bus_id |-> students[i].bus_id]
                      /\ \A k, l \in 1..Len(resp[w].matches) :
                            resp[w].matches[k] = resp[w].matches[l] => k = l

\* More than five rows on routes that contain the query, and five
\* candidates returned.
C9_Witness ==
    \E w \in Workers :
        /\ Answered(w)
        /\ IsDigit(ParseQuery(req[w]))
        /\ IdTier(ParseQuery(req[w])) = {}
        /\ ExactTier(ParseQuery(req[w])) = {}
        /\ Cardinality(SubstringTier(ParseQuery(req[w]))) > 5
        /\ resp[w].status = "Multiple"
        /\ Len(resp[w].matches) = 5

\* C10: for an all-digit query that matches no identifier, the rows whose
\* route equals the query take precedence: when there are any, every
\* student in the outcome is on exactly that route, and the rows whose
\* route merely contains the query are used only when there are none.
C10_ExactRouteBeforeSubstring ==
    \A w \in Workers :
        (/\ Answered(w)
         /\ IsDigit(ParseQuery(req[w]))
         /\ IdTier(ParseQuery(req[w])) = {}) =>
            LET q == ParseQuery(req[w])
                exact == { i \in 1..Len(students) : students[i].bus_id = q }
            IN  /\ exact # {} =>
                      /\ IsVerdict(resp[w]) \/ resp[w].status = "Multiple"
                      /\ IsVerdict(resp[w]) =>
                            /\ Cardinality(exact) = 1
                            /\ resp[w].student_data.bus_id = q
                      /\ resp[w].status = "Multiple" =>
                            \A k \in 1..Len(resp[w].matches) :
                                resp[w].matches[k].bus_id = q
                /\ (exact = {} /\ IsVerdict(resp[w])) =>
                      /\ resp[w].student_data.bus_id # q
                      /\ OccursIn(q, resp[w].student_data.bus_id)

\* Routes 12 and 123 in the table, and the query 12 answered with the
\* student on route 12.
C10_Witness ==
    \E w \in Workers :
        /\ Answered(w)
        /\ ParseQuery(req[w]) = Bus12
        /\ \E i, j \in 1..Len(students) :
              students[i].bus_id = Bus12 /\ students[j].bus_id = Bus123
        /\ IsVerdict(resp[w])
        /\ resp[w].student_data.bus_id = Bus12

\* The rows an outcome names: the row of a verdict, the candidates of a
\* Multiple outcome.
OutcomeFrom(w, tier) ==
    /\ IsVerdict(resp[w]) =>
          \E i \in tier : resp[w].student_data = StudentData(students[i])
    /\ resp[w].status = "Multiple" =>
          \A k \in 1..Len(resp[w].matches) :
              \E i \in tier :
                  resp[w].matches[k] =
                      [student_id |-> students[i].student_id,
                       name |-> students[i].name,
                       bus_id |-> students[i].bus_id]

\* C11: a query that is not all digits and matches no identifier is
\* matched against the names without regard to letter case, the exact
\* match first: the outcome names students whose name equals the query
\* when there are any, and otherwise students whose name contains the
\* query; a single student whose name contains it is the student resolved,
\* and when that student has not paid the message says denied.
C11_NameExactThenSubstring ==
    \A w \in Workers :
        (/\ Answered(w)
         /\ ~IsDigit(ParseQuery(req[w]))
         /\ IdTier(ParseQuery(req[w])) = {}) =>
            LET q == ParseQuery(req[w])
                exact == ExactTier(q)
                sub == SubstringTier(q)
            IN  /\ exact # {} => OutcomeFrom(w, exact)
                /\ exact = {} => OutcomeFrom(w, sub)
                /\ (exact = {} /\ Cardinality(sub) = 1) =>
                      /\ IsVerdict(resp[w])
                      /\ (resp[w].status = "success"
                            /\ resp[w].student_data.fee_paid = 0) =>
                            resp[w].message.text = "Access Denied"

\* Pattern q, in which _ stands for any one character and every other
\* character for itself up to letter case, occurs in text a.
PatternOccursIn(q, a) ==
    \E start \in 1..(Len(a) - Len(q) + 1) :
        \A k \in 1..Len(q) :
            q[k] = "_" \/ SameLetter(a[start + k - 1], q[k])

\* The rows the last tier of the query's branch selects: the route contains
\* the query, or the name matches the query as a pattern.
PatternTier(q) ==
    IF IsDigit(q)
    THEN { i \in 1..Len(students) : OccursIn(q, students[i].bus_id) }
    ELSE { i \in 1..Len(students) : PatternOccursIn(q, students[i].name) }

Blank(s) == \A i \in 1..Len(s) : s[i] = " "

\* C13: a /verify_qr request whose identifier and query are missing, empty
\* or blank is answered with status Error, the message that no identifier
\* was provided and no student data, and leaves the scan log and the
\* student table as they were.
C13_BlankQueryRejected ==
    [][\A w \in SeqWorkers :
          (/\ \E data \in ScanBodies, t \in Times : verify_qr(w, data, t)
           /\ Blank(req'[w].student_id)
           /\ Blank(req'[w].query)) =>
              /\ resp'[w].status = "Error"
              /\ resp'[w].message.text = "No student identifier provided."
              /\ resp'[w].student_data = Null
              /\ scan_log' = scan_log
              /\ students' = students]_vars

\* A blank request answered while the scan log holds an event.
C13_Witness ==
    \E w \in SeqWorkers :
        /\ req[w] # NoReq
        /\ req[w].student_id = <<" ">>
        /\ Blank(req[w].query)
        /\ resp[w] = RespNoIdentifier
        /\ Len(scan_log) > 0
        /\ Len(students) > 0


\* C14: the scan log is append-only. Whatever operation of the application
\* runs (a scan, a registration, a payment, a renewal, a deletion of a
\* student, a ticket operation, a QR generation, a login or logout), every
\* scan event recorded before it is still in the log afterwards, at the
\* same position and with the same student identifier, date and time.
C14_ScanLogAppendOnly ==
    [][ /\ Len(scan_log') >= Len(scan_log)
        /\ \A i \in 1..Len(scan_log) : scan_log'[i] = scan_log[i] ]_vars

\* Both sample students were scanned, the first of them was renewed and then
\* deleted, and a ticket was filed and resolved: the log still holds two
\* events.
C14_Witness ==
    /\ Len(scan_log) = 2
    /\ \E i \in 1..Len(scan_log) : scan_log[i].student_id = S101
    /\ ~Registered(students, S101)
    /\ renewal_history # << >>
    /\ \E i \in 1..Len(help_tickets) : help_tickets[i].status = "Resolved"


\* Worker w served a request for the QR code of a student, and the handler
\* called generate_secure_qr, of which the given step raised.
QrCall(w, student_id, outcome) ==
    /\ Registered(students, student_id)
    /\ \/ generate_qr(w, student_id, outcome)
       \/ "admin" \in session /\ generate_qr_admin(w, student_id, outcome)

\* What is stored at a path: the content of the file, or nothing.
StoredAt(fs, path) == { f.content : f \in { g \in fs : g.path = path } }

\* The steps of generate_secure_qr that come before the call that saves the
\* final image.
BeforeFinalSave == { "encoder", "temp_save", "watermark", "border" }

\* C15: when generate_secure_qr fails at a step before the final image is
\* saved, it raises to its caller, the file stored for that student (if
\* any) is what it was, and the handler that called it (generate_qr or
\* generate_qr_admin) reports the failure and changes no student record.
C15_EarlyFailureKeepsArtifact ==
    [][\A w \in SeqWorkers, id \in QrIds, o \in BeforeFinalSave :
          QrCall(w, id, o) =>
              /\ ~generate_secure_qr(files, id, o).ok
              /\ resp'[w] = Redirect("QR generation failed")
              /\ StoredAt(files', QrFinalPath(id)) =
                    StoredAt(files, QrFinalPath(id))
              /\ students' = students]_vars

\* A generation for the first sample student failed after the base code was
\* written, while the image of an earlier generation is stored.
C15_Witness ==
    \E w \in SeqWorkers :
        /\ resp[w] = Redirect("QR generation failed")
        /\ Exists(files, QrTempPath(S101))
        /\ StoredAt(files, QrFinalPath(S101)) = { FinalImage(S101, TRUE) }


\* The steps of the cosmetic layer: the watermark, the centre logo, the
\* micro-text border.
CosmeticSteps == { "watermark", "logo", "border" }

\* C16: once the base QR matrix has been produced, a failure in a step of
\* the cosmetic layer (watermark, centre logo, micro-text border) does not
\* keep generate_secure_qr from storing an image for the student and
\* returning its path: the handler reports success and the file is there.
C16_CosmeticFailureNotFatal ==
    [][\A w \in SeqWorkers, id \in QrIds, o \in CosmeticSteps :
          QrCall(w, id, o) =>
              /\ generate_secure_qr(files, id, o).ok
              /\ resp'[w] # Redirect("QR generation failed")
              /\ \E image \in StoredAt(files', QrFinalPath(id)) :
                    image.kind = "qr" /\ image.payload = id]_vars

\* The calls of generate_secure_qr that return.
QrReturns == { o \in QrOutcomes : o \notin QrFatal }

\* The files that are neither the image nor the temporary file of a student.
FilesOfOthers(fs, student_id) ==
    { f \in fs : f.path \notin { QrFinalPath(student_id),
                                 QrTempPath(student_id) } }

\* generate_secure_qr keeps its promise on the stored image: the path
\* returned is the one derived from the identifier, the image stored there
\* is the one just composed whatever was there, no file of another
\* identifier changes, and a second call that returns leaves the files as
\* that call alone would have.
QrIdempotent(fs, student_id, first, second) ==
    LET once == generate_secure_qr(fs, student_id, first)
        twice == generate_secure_qr(once.files, student_id, second)
        alone == generate_secure_qr(fs, student_id, second)
    IN  /\ once.ok /\ twice.ok
        /\ once.path = QrFinalPath(student_id)
        /\ StoredAt(once.files, once.path) =
              { FinalImage(student_id, first # "logo") }
        /\ FilesOfOthers(once.files, student_id) =
              FilesOfOthers(fs, student_id)
        /\ twice.files = alone.files

\* C17 as stated: generate_secure_qr is idempotent per identifier (the key
\* comes from the identifier alone, a call that returns overwrites the
\* image of that identifier and touches no other identifier's file, two
\* calls that return leave the files as one call does) and no temporary
\* file remains after a call that returns.
C17_IdempotentNoTempFile ==
    \A id \in QrIds, first \in QrReturns, second \in QrReturns :
        /\ QrIdempotent(files, id, first, second)
        /\ ~Exists(generate_secure_qr(files, id, first).files,
                   QrTempPath(id))

\* C17 amended: generate_secure_qr is idempotent per identifier as above,
\* and no temporary file remains after a call that returns unless the
\* removal of the temporary file failed, which the function ignores: the
\* temporary file of the identifier is then left behind.
C17_IdempotentTempFileUnlessCleanupFails ==
    \A id \in QrIds, first \in QrReturns, second \in QrReturns :
        /\ QrIdempotent(files, id, first, second)
        /\ Exists(generate_secure_qr(files, id, first).files,
                  QrTempPath(id)) <=> first = "cleanup"

\* The images of both sample students are stored, the first one generated
\* twice, first without and then with the logo, and the temporary file of
\* the second one was left behind.
C17_Witness ==
    /\ StoredAt(files, QrFinalPath(S101)) = { FinalImage(S101, TRUE) }
    /\ ~Exists(files, QrTempPath(S101))
    /\ Exists(files, QrFinalPath(<<"S","1","0","2">>))
    /\ Exists(files, QrTempPath(<<"S","1","0","2">>))
    /\ \E w \in SeqWorkers : resp[w] = Redirect("QR code generated")


\* No two rows of the student table hold the same identifier.
UniqueIds(store) ==
    \A i \in 1..Len(store), j \in 1..Len(store) :
        store[i].student_id = store[j].student_id => i = j

\* C18: in every state reached through the operations, two add_student
\* requests that computed the same next identifier included, no two student
\* records share an identifier; an add_student whose insert collides with
\* an existing identifier reports that the identifier already exists and
\* creates no record.
C18_IdentifiersUnique ==
    [][/\ UniqueIds(students) /\ UniqueIds(students')
       /\ \A w \in Workers :
             (/\ AsInsert(w)
              /\ Registered(students, loc[w].student_id)) =>
                 /\ resp'[w] = Redirect("Student ID already exists!")
                 /\ students' = students]_vars

\* Two requests computed the same identifier; one inserted its student and
\* the other was told that the identifier exists.
C18_Witness ==
    \E w \in Workers, v \in Workers :
        /\ w # v
        /\ resp[w] = Redirect("Student ID already exists!")
        /\ pc[w] = "idle"
        /\ pc[v] = "as_qr"
        /\ Registered(students, loc[v].student_id)
        /\ Len(students) = Len(SampleRows) + 1


\* The numbers written after the S of an identifier that is S followed by
\* digits: its numeric part.
NumericParts(store) ==
    { n \in 0..(2 * MaxStore) :
        \E i \in 1..Len(store), zeros \in 0..2 :
            store[i].student_id =
                <<"S">> \o [k \in 1..zeros |-> "0"] \o Decimal(n) }

\* The smallest positive integer that is no numeric part.
SmallestFree(store) ==
    LET parts == NumericParts(store)
    IN  CHOOSE n \in 1..(Len(store) + 1) :
            /\ n \notin parts
            /\ \A m \in 1..(n - 1) : m \in parts

\* The identifier is S followed by the number n padded with zeros to two
\* digits at least.
IsPaddedId(student_id, n) ==
    /\ Len(student_id) = 1 + (IF n < 10 THEN 2 ELSE Len(Decimal(n)))
    /\ student_id[1] = "S"
    /\ \E zeros \in 0..1 :
          Tail(student_id) = [k \in 1..zeros |-> "0"] \o Decimal(n)

\* C19: generate_student_id returns S followed by the smallest positive
\* integer that is not the numeric part of an existing identifier, padded
\* with zeros to at least two digits, and the identifier returned is not
\* the identifier of an existing student; the student that add_student
\* registers carries it.
C19_SmallestFreeIdentifier ==
    [][LET free == SmallestFree(students)
       IN  /\ IsPaddedId(generate_student_id(students), free)
           /\ ~Registered(students, generate_student_id(students))
           /\ \A w \in SeqWorkers :
                 (/\ Len(students') = Len(students) + 1
                  /\ \E form \in RegForms, o \in StepOutcomes :
                        add_student(w, form, o)) =>
                     IsPaddedId(students'[Len(students')].student_id,
                                free)]_vars

\* A student was registered as S03 into the table that held S007, S02 and
\* S01.
C19_Witness ==
    /\ Len(students) = 4
    /\ students[1].student_id = <<"S","0","0","7">>
    /\ students[4].student_id = <<"S","0","3">>
    /\ \E w \in SeqWorkers :
          resp[w] = Redirect("added successfully! QR code generated.")


\* The file is a photo saved for the student: the identifier followed by
\* the extension of the upload, under static/student_photos.
IsPhotoOf(f, student_id) ==
    /\ f.path = PhotoPath(f.path.name)
    /\ Len(f.path.name) >= Len(student_id)
    /\ SubSeq(f.path.name, 1, Len(student_id)) = student_id
    /\ Len(f.path.name) > Len(student_id) =>
          f.path.name[Len(student_id) + 1] = "."

\* C20: after delete_student(X) has run with an admin session, no student
\* record has the identifier X, no QR image of X is stored, and no photo
\* saved for X at registration is stored, whatever its extension.
C20_DeleteRemovesEverything ==
    [][\A w \in SeqWorkers, id \in RegIds :
          ("admin" \in session /\ delete_student(w, id)) =>
              /\ ~Registered(students', id)
              /\ ~Exists(files', QrFinalPath(id))
              /\ \A f \in files' : ~IsPhotoOf(f, id)]_vars


\* The days since a ticket was resolved, at the same time of day, in the
\* month of the wall clock.
AgeInDays(k) == today - k.resolved_at[3]

\* C21: loading the admin dashboard with an admin session deletes every
\* help ticket whose status is Resolved and that was resolved 5 or more
\* days ago, and keeps every Open ticket and every ticket resolved less
\* than 5 days ago.
C21_DashboardPrunesStaleTickets ==
    [][\A w \in SeqWorkers, t \in Times, z \in UtcOffsets :
          ("admin" \in session /\ admin_dashboard(w, t, z)) =>
              help_tickets' =
                  SelectSeq(help_tickets,
                            LAMBDA k : ~(/\ k.status = "Resolved"
                                         /\ AgeInDays(k) >= PruneAge))]_vars


\* C23: verify_qr answers Duplicate for a student only if that same
\* registered student was scanned earlier on the same date. The scan that
\* directly follows the registration of a student is the first scan of that
\* student, so it is not answered Duplicate, whatever events an earlier
\* holder of the identifier, since deleted, left in the scan log.
C23_ReissuedIdentifierStartsFresh ==
    [][\A w \in SeqWorkers :
          (/\ resp[w] = Redirect("added successfully! QR code generated.")
           /\ ScanStep(w)
           /\ Len(students) > 0
           /\ resp'[w].student_data.student_id =
                 students[Len(students)].student_id) =>
              resp'[w].duplicate = FALSE]_vars


\* Worker w served a /verify_qr request of the whole application.
AppScan(w) == \E data \in AppBodies, t \in Times : verify_qr(w, data, t)

\* C24: verify_qr appends a scan event only when the query resolved to a
\* single student for whom the log holds no event of today, and then it
\* appends exactly one event, of that student and today's date; a request
\* that resolved to no student or to several appends nothing; and no
\* verify_qr request changes a student record.
C24_ScanAppendsAtMostOneEvent ==
    [][\A w \in SeqWorkers :
          AppScan(w) =>
              /\ students' = students
              /\ IF /\ IsVerdict(resp'[w])
                    /\ EventsOf(resp'[w].student_data.student_id,
                                DateStr(today)) = {}
                 THEN /\ Len(scan_log') = Len(scan_log) + 1
                      /\ SubSeq(scan_log', 1, Len(scan_log)) = scan_log
                      /\ scan_log'[Len(scan_log')].student_id =
                            resp'[w].student_data.student_id
                      /\ scan_log'[Len(scan_log')].scan_date = DateStr(today)
                 ELSE scan_log' = scan_log]_vars

\* The log holds the event of one sample student, and the last request,
\* for a digit of the route of both, was answered Multiple and added
\* nothing.
C24_Witness ==
    \E w \in SeqWorkers :
        /\ resp[w].status = "Multiple"
        /\ Len(scan_log) = 1
        /\ scan_log[1].student_id = S101


\* C25: the fee-paid flag of a student changes only through an operation
\* performed with an admin session: a request served while no admin session
\* is set leaves the flag of every student as it was.
C25_FeeFlagNeedsAdminSession ==
    [][("admin" \notin session) =>
          \A i \in 1..Len(students), j \in 1..Len(students') :
              students'[j].student_id = students[i].student_id =>
                  students'[j].fee_paid = students[i].fee_paid]_vars


\* Worker w served a request for an operation reserved to the
\* administrator.
AdminOperation(w) ==
    \/ \E form \in AppForms, o \in AppOutcomes : add_student(w, form, o)
    \/ \E id \in AppIds : delete_student(w, id)
    \/ \E id \in AppIds, a \in AppAmounts : mark_paid_admin(w, id, a)
    \/ \E id \in AppIds : renew_transport(w, id)
    \/ \E id \in TicketIds, t \in Times : resolve_ticket(w, id, t)
    \/ \E id \in AppIds, o \in AppOutcomes : generate_qr_admin(w, id, o)
    \/ \E t \in Times, z \in AppOffsets : admin_dashboard(w, t, z)

\* The login form carries the configured credentials.
ConfiguredCredentials(form) ==
    form.username = "admin" /\ form.password = "12345"

\* C26: the admin session is set only by admin_login with the configured
\* credentials and cleared only by logout; a login with other credentials
\* does not set it; and an operation reserved to the administrator
\* (add_student, delete_student, mark_paid_admin, renew_transport,
\* resolve_ticket, generate_qr_admin, the dashboard and its pruning) that
\* is requested while no admin session is set changes no student record,
\* ticket, renewal record or stored file.
C26_AdminSessionGatesOperations ==
    [][/\ ("admin" \in session' /\ "admin" \notin session) =>
             \E w \in SeqWorkers, form \in Logins :
                 ConfiguredCredentials(form) /\ admin_login(w, form)
       /\ ("admin" \notin session' /\ "admin" \in session) =>
             \E w \in SeqWorkers : logout(w)
       /\ \A w \in SeqWorkers, form \in Logins :
             (admin_login(w, form) /\ ~ConfiguredCredentials(form)) =>
                 session' = session
       /\ \A w \in SeqWorkers :
             ("admin" \notin session /\ AdminOperation(w)) =>
                 /\ students' = students
                 /\ help_tickets' = help_tickets
                 /\ renewal_history' = renewal_history
                 /\ files' = files]_vars

\* After a logout, with a student registered, a ticket filed and files
\* stored, a request reserved to the administrator was turned away.
C26_Witness ==
    \E w \in SeqWorkers :
        /\ "admin" \notin session
        /\ resp[w] = Redirect("Please login first")
        /\ Len(students) > Len(SampleRows)
        /\ help_tickets # << >>
        /\ files # NoFiles


\* The answers of add_student to a form it turns down: a field that fails
\* validation, a paid status with another amount than the fee, a student
\* that exists already.
Rejections ==
    { Redirect("invalid form"),
      Redirect("Amount must be exactly 15000 for Paid status."),
      Redirect("A student with the same name already exists.") }

\* C27: an add_student request that is rejected leaves the student table
\* and the stored files as they were: no student record is inserted and no
\* photo or QR file is written.
C27_RejectedAddChangesNothing ==
    [][\A w \in SeqWorkers :
          (/\ \E form \in SeqForms, o \in SeqOutcomes :
                 add_student(w, form, o)
           /\ resp'[w] \in Rejections) =>
              /\ students' = students
              /\ files' = files]_vars


\* C28: in every interleaving of add_student requests, the photo stored
\* under the identifier of a registered student is the photo uploaded in
\* the request that created the record of that student: a concurrent or
\* failed request that computed the same identifier has not overwritten it.
\* Whatever file is stored under the identifier holds the bytes uploaded
\* with the form that registered the student.
C28_PhotoBelongsToItsStudent ==
    \A i \in 1..Len(students), form \in StepForms :
        (~AddErrors(form) /\ students[i].name = Strip(form.name)) =>
            StoredAt(files,
                     PhotoPath(students[i].student_id
                                  \o Lower(SplitExt(form.photo.filename))))
                \subseteq { [kind |-> "photo", bytes |-> form.photo.bytes] }

=============================================================================
